---------------------------- MODULE Spec2Model ----------------------------
(***************************************************************************)
(* Model of the image-clone-controller (controllers/image_clone_controller *)
(* .go): the namespace filter, the two reconcile entry points, the pod     *)
(* template rewrite and the destination naming scheme.                     *)
(*                                                                         *)
(* Strings that the code parses or builds (image references, registry      *)
(* authorities) are sequences of one-character strings, so that parsing,   *)
(* sanitizing and serializing are computed character by character.         *)
(* Strings that the code only compares (namespaces, kinds) are TLA+        *)
(* strings.                                                                *)
(***************************************************************************)
EXTENDS Integers, Sequences, FiniteSets, TLC

(***************************************************************************)
(* Go's strings package, as far as the code and pkg/name use it.           *)
(***************************************************************************)
\* strings.ContainsRune(s, c)
ContainsRune(s, c) == \E i \in 1..Len(s) : s[i] = c

\* the positions of the separator c in s
Positions(s, c) == {i \in 1..Len(s) : s[i] = c}

\* strings.Index(s, c) for a one-character separator; 0 when absent
Index(s, c) ==
  LET at == Positions(s, c)
  IN  IF at = {} THEN 0 ELSE CHOOSE i \in at : \A j \in at : i <= j

\* strings.LastIndex(s, c) for a one-character separator; 0 when absent
LastIndex(s, c) ==
  LET at == Positions(s, c)
  IN  IF at = {} THEN 0 ELSE CHOOSE i \in at : \A j \in at : i >= j

\* strings.Count(s, c)
Count(s, c) == Cardinality(Positions(s, c))

\* s[:i-1] and s[i+1:] around the separator at position i
Before(s, i) == SubSeq(s, 1, i - 1)
After(s, i) == SubSeq(s, i + 1, Len(s))

\* strings.ReplaceAll(s, old, new) for one-character old and new; also what
\* a strings.Replacer does when all its pairs are single characters
ReplaceAll(s, olds, new) == [i \in 1..Len(s) |-> IF s[i] \in olds THEN new ELSE s[i]]

(***************************************************************************)
(* github.com/google/go-containerregistry/pkg/name, the image reference    *)
(* model used at lines 160, 165, 170-183 and 198-210 of the controller.    *)
(***************************************************************************)
repositoryChars == {"a","b","c","d","e","f","g","h","i","j","k","l","m","n","o","p","q","r","s","t","u","v","w","x","y","z","0","1","2","3","4","5","6","7","8","9","_","-",".","/"}
tagChars == {"a","b","c","d","e","f","g","h","i","j","k","l","m","n","o","p","q","r","s","t","u","v","w","x","y","z","A","B","C","D","E","F","G","H","I","J","K","L","M","N","O","P","Q","R","S","T","U","V","W","X","Y","Z","0","1","2","3","4","5","6","7","8","9","_","-","."}
digestChars == {"s","h",":","0","1","2","3","4","5","6","7","8","9","a","b","c","d","e","f"}
\* characters a URI authority (host[:port]) is made of; checkRegistry accepts
\* a name that url.Parse("//" + name) returns unchanged as the host
registryChars == tagChars \cup {":"}

DefaultRegistry == <<"i","n","d","e","x",".","d","o","c","k","e","r",".","i","o">>
defaultRegistryAlias == <<"d","o","c","k","e","r",".","i","o">>
defaultNamespace == <<"l","i","b","r","a","r","y">>
DefaultTag == <<"l","a","t","e","s","t">>

\* checkElement(name, element, allowedRunes, minRunes, maxRunes)
checkElement(element, allowedRunes, minRunes, maxRunes) ==
  /\ Len(element) >= minRunes
  /\ Len(element) <= maxRunes
  /\ \A i \in 1..Len(element) : element[i] \in allowedRunes

checkRepository(repository) == checkElement(repository, repositoryChars, 2, 255)
checkTag(tag) == checkElement(tag, tagChars, 1, 128)
\* "sha256:" followed by 64 hexadecimal characters
checkDigest(digest) == checkElement(digest, digestChars, 7 + 64, 7 + 64)
checkRegistry(registry) == \A i \in 1..Len(registry) : registry[i] \in registryChars

\* the error value of every constructor below
BadName == [ok |-> FALSE]

\* name.NewRegistry(name): the empty name is the default registry, and
\* docker.io is rewritten to index.docker.io
NewRegistry(registry) ==
  IF ~checkRegistry(registry) THEN BadName
  ELSE [ok |-> TRUE,
        insecure |-> FALSE,
        registry |-> IF registry = <<>> \/ registry = defaultRegistryAlias
                     THEN DefaultRegistry ELSE registry]

\* Registry.RegistryStr()
RegistryStr(reg) == reg.registry

\* the value of an expression that is computed once: Only({F(x) : x \in {e}})
\* is F(e) with e evaluated a single time
Only(S) == CHOOSE r \in S : TRUE

\* name.NewRepository(name): the part before the first "/" is the registry
\* iff it contains a "." or a ":", otherwise the whole name is the repository
\* on the default registry
NewRepository(name) ==
  Only({Only({
    LET first == Before(s, cut)
        split == cut > 0 /\ (ContainsRune(first, ".") \/ ContainsRune(first, ":"))
        registry == IF split THEN first ELSE <<>>
        repo == IF split THEN After(s, cut) ELSE s
        reg == NewRegistry(registry)
    IN  IF s = <<>> THEN BadName
        ELSE IF ~checkRepository(repo) THEN BadName
        ELSE IF ~reg.ok THEN BadName
        ELSE [ok |-> TRUE, Registry |-> [insecure |-> reg.insecure, registry |-> reg.registry],
              repository |-> repo]
    : cut \in {Index(s, "/")}}) : s \in {name}})

\* hasImplicitNamespace(repo, reg)
hasImplicitNamespace(repo, reg) ==
  ~ContainsRune(repo, "/") /\ RegistryStr(reg) = DefaultRegistry

\* Repository.RepositoryStr(): single-segment repositories of the default
\* registry live under library/
RepositoryStr(r) ==
  IF hasImplicitNamespace(r.repository, r.Registry)
  THEN defaultNamespace \o <<"/">> \o r.repository
  ELSE r.repository

\* Repository.Name()
RepositoryName(r) == RegistryStr(r.Registry) \o <<"/">> \o RepositoryStr(r)

\* name.NewTag(name): the part after the last ":" is the tag unless it
\* contains a "/" (then the ":" belongs to a host:port)
NewTag(name) ==
  Only({Only({
    LET last == After(s, cut)
        split == cut > 0 /\ ~ContainsRune(last, "/")
        base == IF split THEN Before(s, cut) ELSE s
        tag == IF split THEN last ELSE <<>>
    IN  IF tag # <<>> /\ ~checkTag(tag) THEN BadName
        ELSE Only({IF ~repo.ok THEN BadName
                   ELSE [ok |-> TRUE, isDigest |-> FALSE,
                         Registry |-> repo.Registry, repository |-> repo.repository,
                         identifier |-> IF tag = <<>> THEN DefaultTag ELSE tag]
                   : repo \in {NewRepository(base)}})
    : cut \in {LastIndex(s, ":")}}) : s \in {name}})

\* name.NewDigest(name): exactly one "@"; a tag in the part before it is
\* parsed and dropped
NewDigest(name) ==
  Only({Only({
    LET base == Before(s, cut)
        dig == After(s, cut)
    IN  IF Count(s, "@") # 1 THEN BadName
        ELSE IF ~checkDigest(dig) THEN BadName
        ELSE Only({Only({IF ~repo.ok THEN BadName
                         ELSE [ok |-> TRUE, isDigest |-> TRUE,
                               Registry |-> repo.Registry, repository |-> repo.repository,
                               identifier |-> dig]
                         : repo \in {NewRepository(IF tag.ok THEN RepositoryName(tag)
                                                   ELSE base)}})
                   : tag \in {NewTag(base)}})
    : cut \in {Index(s, "@")}}) : s \in {name}})

\* name.ParseReference(s): a tag reference if it parses as one, else a digest
\* reference, else an error
ParseReference(s) ==
  Only({IF t.ok THEN t
        ELSE Only({IF d.ok THEN d ELSE BadName : d \in {NewDigest(s)}})
        : t \in {NewTag(s)}})

\* Reference.Context(): the repository of a reference
Context(ref) == [Registry |-> ref.Registry, repository |-> ref.repository]

\* Reference.Identifier(): Tag.TagStr() or Digest.DigestStr()
Identifier(ref) == ref.identifier

\* Reference.Name(): the serialized form, repository:tag or repository@digest
Name(ref) ==
  RepositoryName(Context(ref)) \o (IF ref.isDigest THEN <<"@">> ELSE <<":">>) \o Identifier(ref)


(***************************************************************************)
(* Destination naming scheme (lines 189-211).                              *)
(***************************************************************************)
\* registryReplacer = strings.NewReplacer(".", "_", ":", "_")
registryReplacer(s) == ReplaceAll(s, {".", ":"}, "_")

\* toDestinationImage(srcImg, dstRegistry): the result of name.NewTag on
\* "<dstRegistry>/<sanitized registry>/<repository>:<tag>"
toDestinationImage(srcImage, dstRegistry) ==
  Only({
    LET newRepository == registryReplacer(RegistryStr(Context(srcImg).Registry))
                           \o <<"/">> \o RepositoryStr(Context(srcImg))
        newTag == IF srcImg.isDigest
                  THEN ReplaceAll(Identifier(srcImg), {":"}, "_")
                  ELSE Identifier(srcImg)
    IN  NewTag(RegistryStr(dstRegistry) \o <<"/">> \o newRepository \o <<":">> \o newTag)
    : srcImg \in {srcImage}})


(***************************************************************************)
(* Configuration and inputs.                                               *)
(***************************************************************************)
\* the --backup-registry flag of the deployment manifest
ManifestRegistry == <<"1","0",".","9","6",".","0",".","1","1",":","5","0","0","1">>
\* a backup registry addressed by a single-label host name without a port
ServiceRegistry == <<"r","e","g","i","s","t","r","y">>
\* the values of ImageCloneController.BackupRegistry that are explored
BackupRegistries ==
  {[insecure |-> r.insecure, registry |-> r.registry] :
     r \in {NewRegistry(ManifestRegistry), NewRegistry(ServiceRegistry)}}

\* the values of ImageCloneController.PodNamespace that are explored
PodNamespaces == {"", "image-clone-system"}

Kinds == {"Deployment", "DaemonSet"}
Namespaces == {"default", "kube-system", "registry", "local-path-storage", "image-clone-system"}
Identities == [kind : Kinds, namespace : Namespaces, name : {"app"}]

\* container images of the explored workloads: one that already lives in
\* the backup registry, one that needs mirroring, one that does not parse,
\* and one whose registry does not survive the renaming
ImgMirrored(backup) == RegistryStr(backup) \o <<"/","a","p","p",":","v","1">>
ImgNginx == <<"n","g","i","n","x",":","1",".","2","3">>
ImgBad == <<"N","g","i","n","x">>
ImgUpper == <<"G","H","C","R",".","i","o","/","a","/","b",":","v","1">>
ImagePool(backup) == {ImgMirrored(backup), ImgNginx, ImgBad, ImgUpper}
\* the images of the workload that exists at the start, and the image of the
\* containers added while the controller runs
InitialImages(backup) == {ImgMirrored(backup), ImgNginx, ImgBad}
AddedImages == {ImgUpper}

\* most containers in a pod template, and the last resourceVersion a stored
\* workload takes
MaxContainers == 2
MaxVersion == 3

ContainerName(i) == <<"c", i>>
Template(images) == [i \in 1..Len(images) |-> [name |-> ContainerName(i), image |-> images[i]]]
Templates(backup) ==
  {Template(images) : images \in UNION {[1..n -> InitialImages(backup)] : n \in 1..MaxContainers}}

NoObject == [exists |-> FALSE]
Object(rv, containers) == [exists |-> TRUE, resourceVersion |-> rv, containers |-> containers]

(***************************************************************************)
(* State.                                                                  *)
(***************************************************************************)
VARIABLES
  BackupRegistry,     \* ImageCloneController.BackupRegistry
  PodNamespace,       \* ImageCloneController.PodNamespace
  ignoredNamespaces,  \* the package-level set of ignored namespaces
  started,            \* "new", "setup" (SetupWithManager ran), "running", "stopped"
  store,              \* the API server: identity -> stored workload
  queue,              \* per controller, the identities waiting for a reconcile
  pc,                 \* per controller, where its worker is in Reconcile
  req,                \* per controller, the request being reconciled
  live,               \* deployment / daemonSet: the fetched object, mutated in place
  before,             \* the deep copy taken after the fetch
  idx,                \* the loop index i of reconcilePodTemplate
  copying,            \* the transfer crane.Copy is blocked in
  ret,                \* what Reconcile returned: "nil" or "err"
  ops,                \* history: the calls of the attempt, in order
  outcome,            \* history: the return statement the attempt ended at
  base,               \* history: the stored workload as others left it
  cancelled,          \* per controller, where its attempt was when ctx was cancelled
  naming              \* the naming scheme applied to one input

config == <<BackupRegistry, PodNamespace>>
worker == <<pc, req, live, before, idx, copying, ret, ops, outcome, base, cancelled>>
vars == <<BackupRegistry, PodNamespace, ignoredNamespaces, started, store, queue,
          pc, req, live, before, idx, copying, ret, ops, outcome, base, cancelled,
          naming>>

NoRequest == [kind |-> "", namespace |-> "", name |-> ""]
NoCopy == [active |-> FALSE]
NoNaming == [phase |-> "off"]
\* ctx is not cancelled
NoCancel == [at |-> "no", n |-> 0]

\* var ignoredNamespaces = sets.NewString(metav1.NamespaceSystem, RegistryNamespace, "local-path-storage")
InitialIgnoredNamespaces == {"kube-system", "registry", "local-path-storage"}

\* the worker of a controller between two reconciles
IdleWorker ==
  /\ pc = [k \in Kinds |-> "idle"]
  /\ req = [k \in Kinds |-> NoRequest]
  /\ live = [k \in Kinds |-> NoObject]
  /\ before = [k \in Kinds |-> NoObject]
  /\ idx = [k \in Kinds |-> 0]
  /\ copying = [k \in Kinds |-> NoCopy]
  /\ ret = [k \in Kinds |-> "none"]
  /\ ops = [k \in Kinds |-> <<>>]
  /\ outcome = [k \in Kinds |-> "none"]
  /\ base = [k \in Kinds |-> NoObject]
  /\ cancelled = [k \in Kinds |-> NoCancel]

\* one workload exists in the cluster when the controller is constructed
Init ==
  /\ BackupRegistry \in BackupRegistries
  /\ PodNamespace \in PodNamespaces
  /\ ignoredNamespaces = InitialIgnoredNamespaces
  /\ started = "new"
  /\ \E id \in Identities, t \in Templates(BackupRegistry) :
       store = [j \in Identities |-> IF j = id THEN Object(1, t) ELSE NoObject]
  /\ queue = [k \in Kinds |-> {}]
  /\ IdleWorker
  /\ naming = NoNaming

(***************************************************************************)
(* Namespace filter and controller setup (lines 59-92).                    *)
(***************************************************************************)
\* namespacePredicate: !ignoredNamespaces.Has(obj.GetNamespace())
namespacePredicate(id) == id.namespace \notin ignoredNamespaces

\* For(&appsv1.X{}, builder.WithPredicates(GenerationChangedPredicate{}, namespacePredicate)):
\* an event for a workload whose generation changed reaches the queue of the
\* controller of its kind iff the namespace predicate accepts it
Watch(q, id) ==
  IF namespacePredicate(id) THEN [q EXCEPT ![id.kind] = @ \cup {id}] ELSE q

\* SetupWithManager without the insertion of the controller's own namespace
SetupWithManagerNoInsert ==
  /\ started = "new"
  /\ started' = "setup"
  /\ UNCHANGED <<config, ignoredNamespaces, store, queue, worker, naming>>

\* SetupWithManager (lines 59-63): the controller's own namespace joins the
\* ignored set; the two controllers are registered with their predicates
SetupWithManager ==
  /\ started = "new"
  /\ started' = "setup"
  /\ ignoredNamespaces' =
       IF PodNamespace # "" THEN ignoredNamespaces \cup {PodNamespace} ELSE ignoredNamespaces
  /\ UNCHANGED <<config, store, queue, worker, naming>>

\* the manager starts: the informers deliver one event for each workload
\* that exists, through the predicates of its controller
ManagerStart ==
  /\ started = "setup"
  /\ started' = "running"
  /\ queue' = [k \in Kinds |->
       queue[k] \cup {id \in Identities :
                      id.kind = k /\ store[id].exists /\ namespacePredicate(id)}]
  /\ UNCHANGED <<config, ignoredNamespaces, store, worker, naming>>

\* a Deployment and a DaemonSet of one name, one namespace and one pod
\* template of a single container exist when the controller is constructed
InitKinds ==
  /\ BackupRegistry \in {r \in BackupRegistries : r.registry = ManifestRegistry}
  /\ PodNamespace = ""
  /\ ignoredNamespaces = InitialIgnoredNamespaces
  /\ started = "new"
  /\ \E img \in InitialImages(BackupRegistry) :
       store = [j \in Identities |->
                  IF j.namespace = "default"
                  THEN Object(1, Template(<<img>>)) ELSE NoObject]
  /\ queue = [k \in Kinds |-> {}]
  /\ IdleWorker
  /\ naming = NoNaming

(***************************************************************************)
(* Other actors on the API server.                                         *)
(***************************************************************************)
\* what a write of others leaves behind: the stored object, the event it
\* raises, and the history of the attempt in flight on it (if any)
Written(id, obj) ==
  /\ store' = [store EXCEPT ![id] = obj]
  /\ queue' = Watch(queue, id)
  /\ base' = [k \in Kinds |-> IF pc[k] # "idle" /\ req[k] = id THEN obj ELSE base[k]]
  /\ UNCHANGED <<config, ignoredNamespaces, started, pc, req, live, before, idx,
                 copying, ret, ops, outcome, naming, cancelled>>

\* a user rolls the first container out to an upstream image
UserSetImage(id) ==
  /\ started = "running"
  /\ store[id].exists
  /\ store[id].resourceVersion < MaxVersion
  /\ \E i \in {1}, img \in {ImgNginx} :
       /\ store[id].containers[i].image # img
       /\ Written(id, Object(store[id].resourceVersion + 1,
                             [store[id].containers EXCEPT ![i].image = img]))

\* a user adds a container
UserAddContainer(id) ==
  /\ started = "running"
  /\ store[id].exists
  /\ store[id].resourceVersion < MaxVersion
  /\ Len(store[id].containers) < MaxContainers
  /\ \E img \in AddedImages :
       Written(id, Object(store[id].resourceVersion + 1,
                          Append(store[id].containers,
                                 [name |-> ContainerName(Len(store[id].containers) + 1),
                                  image |-> img])))

\* a user deletes the workload
UserDelete(id) ==
  /\ started = "running"
  /\ store[id].exists
  /\ Written(id, NoObject)

(***************************************************************************)
(* The reconcile loop (lines 94-187).  ReconcileDeployment and             *)
(* ReconcileDaemonSet are the same text up to the type of the object, so   *)
(* each step below takes the kind k of the controller that runs it.        *)
(***************************************************************************)
Log(k, entry) == ops' = [ops EXCEPT ![k] = Append(@, entry)]
Log2(k, e1, e2) == ops' = [ops EXCEPT ![k] = Append(Append(@, e1), e2)]

\* Reconcile returns to the dispatcher
Returns(k, err, how) ==
  /\ pc' = [pc EXCEPT ![k] = "done"]
  /\ ret' = [ret EXCEPT ![k] = err]
  /\ outcome' = [outcome EXCEPT ![k] = how]

\* the attempt that starts puts the namespace of its request on the ignored set
StartReconcileIgnoring(k) ==
  /\ started = "running"
  /\ pc[k] = "idle"
  /\ \E id \in queue[k] :
       /\ store[id].exists => store[id].resourceVersion <= MaxVersion
       /\ queue' = [queue EXCEPT ![k] = @ \ {id}]
       /\ req' = [req EXCEPT ![k] = id]
       /\ base' = [base EXCEPT ![k] = store[id]]
       /\ ignoredNamespaces' = ignoredNamespaces \cup {id.namespace}
  /\ pc' = [pc EXCEPT ![k] = "Get"]
  /\ UNCHANGED <<config, started, store, live, before, idx,
                 copying, ret, ops, outcome, naming, cancelled>>

\* the dispatcher hands a queued request to the idle worker of controller k;
\* a workload whose resourceVersion has passed MaxVersion is followed no further
StartReconcile(k) ==
  /\ started = "running"
  /\ pc[k] = "idle"
  /\ \E id \in queue[k] :
       /\ store[id].exists => store[id].resourceVersion <= MaxVersion
       /\ queue' = [queue EXCEPT ![k] = @ \ {id}]
       /\ req' = [req EXCEPT ![k] = id]
       /\ base' = [base EXCEPT ![k] = store[id]]
  /\ pc' = [pc EXCEPT ![k] = "Get"]
  /\ UNCHANGED <<config, ignoredNamespaces, started, store, live, before, idx,
                 copying, ret, ops, outcome, naming, cancelled>>

\* before := deployment.DeepCopy()
DeepCopy(obj) == obj

\* c.Get succeeds; the object is snapshotted and the rewrite begins
GetFound(k) ==
  /\ pc[k] = "Get"
  /\ store[req[k]].exists
  /\ live' = [live EXCEPT ![k] = store[req[k]]]
  /\ before' = [before EXCEPT ![k] = DeepCopy(store[req[k]])]
  /\ idx' = [idx EXCEPT ![k] = 1]
  /\ pc' = [pc EXCEPT ![k] = "Rewrite"]
  /\ Log(k, [op |-> "Get", res |-> "ok"])
  /\ UNCHANGED <<config, ignoredNamespaces, started, store, queue, req, copying,
                 ret, outcome, base, naming, cancelled>>

\* the not-found error of c.Get is returned like any other error
GetNotFoundAsError(k) ==
  /\ pc[k] = "Get"
  /\ ~store[req[k]].exists
  /\ Log(k, [op |-> "Get", res |-> "notfound"])
  /\ Returns(k, "err", "not-found")
  /\ UNCHANGED <<config, ignoredNamespaces, started, store, queue, req, live, before,
                 idx, copying, base, naming, cancelled>>

\* c.Get reports that the object is gone: return reconcile.Result{}, nil
GetNotFound(k) ==
  /\ pc[k] = "Get"
  /\ ~store[req[k]].exists
  /\ Log(k, [op |-> "Get", res |-> "notfound"])
  /\ Returns(k, "nil", "not-found")
  /\ UNCHANGED <<config, ignoredNamespaces, started, store, queue, req, live, before,
                 idx, copying, base, naming, cancelled>>

\* an error of c.Get other than not-found is logged and nil is returned
GetErrorSwallowed(k) ==
  /\ pc[k] = "Get"
  /\ Log(k, [op |-> "Get", res |-> "error"])
  /\ Returns(k, "nil", "read-error")
  /\ UNCHANGED <<config, ignoredNamespaces, started, store, queue, req, live, before,
                 idx, copying, base, naming, cancelled>>

\* an error of c.Get other than not-found is recorded as a Warning event
\* before it is returned
GetErrorWithEvent(k) ==
  /\ pc[k] = "Get"
  /\ Log2(k, [op |-> "Get", res |-> "error"],
             [op |-> "Event", object |-> req[k], type |-> "Warning",
              reason |-> "FailedCopyingImages"])
  /\ Returns(k, "err", "read-error")
  /\ UNCHANGED <<config, ignoredNamespaces, started, store, queue, req, live, before,
                 idx, copying, base, naming, cancelled>>

\* c.Get fails otherwise: return an "error reading object"
GetError(k) ==
  /\ pc[k] = "Get"
  /\ Log(k, [op |-> "Get", res |-> "error"])
  /\ Returns(k, "err", "read-error")
  /\ UNCHANGED <<config, ignoredNamespaces, started, store, queue, req, live, before,
                 idx, copying, base, naming, cancelled>>

\* client.StrategicMergeFrom(before) without MergeFromWithOptimisticLock: the
\* patch carries no resourceVersion
StrategicMergeFromNoLock(old, new) ==
  [lock |-> FALSE,
   resourceVersion |-> old.resourceVersion,
   containers |-> SelectSeq(new.containers,
                            LAMBDA c : \A i \in 1..Len(old.containers) : old.containers[i] # c)]

\* client.StrategicMergeFrom(before, client.MergeFromWithOptimisticLock{}):
\* the containers (keyed by name) that differ from the snapshot, and the
\* resourceVersion of the snapshot as precondition
StrategicMergeFrom(old, new) ==
  [lock |-> TRUE,
   resourceVersion |-> old.resourceVersion,
   containers |-> SelectSeq(new.containers,
                            LAMBDA c : \A i \in 1..Len(old.containers) : old.containers[i] # c)]

\* the API server applies the patch as a JSON merge patch: the list of
\* containers is replaced by the list of the patch
PatchedReplacingList(obj, patch) ==
  Object(obj.resourceVersion + 1, patch.containers)

\* the API server applies a strategic merge patch to the stored containers
Patched(obj, patch) ==
  LET named(n) == {i \in 1..Len(patch.containers) : patch.containers[i].name = n}
      merged == [i \in 1..Len(obj.containers) |->
                   IF named(obj.containers[i].name) # {}
                   THEN patch.containers[CHOOSE j \in named(obj.containers[i].name) : TRUE]
                   ELSE obj.containers[i]]
      added == SelectSeq(patch.containers,
                         LAMBDA c : \A i \in 1..Len(obj.containers) : obj.containers[i].name # c.name)
  IN  Object(obj.resourceVersion + 1, merged \o added)

\* the API server applies a patch whatever resourceVersion it carries
UnlockedAlways(obj, patch) == TRUE

\* the precondition of a patch holds on the stored object
Unlocked(obj, patch) == patch.lock => patch.resourceVersion = obj.resourceVersion

ThePatch(k) == StrategicMergeFrom(before[k], live[k])

\* the Warning event of lines 109 and 139
FailedCopyingImages(k) ==
  [op |-> "Event", object |-> req[k], type |-> "Warning", reason |-> "FailedCopyingImages"]

\* the error of reconcilePodTemplate is recorded, but the images rewritten
\* before the failure are patched all the same
RewriteFailedButPatched(k, entry) ==
  /\ Log2(k, entry, FailedCopyingImages(k))
  /\ Returns(k, "err", "rewrite-error")
  /\ copying' = [copying EXCEPT ![k] = NoCopy]
  /\ store' = [store EXCEPT ![req[k]] =
       IF @.exists /\ Unlocked(@, ThePatch(k)) /\ @.resourceVersion < MaxVersion
          /\ live[k] # before[k]
       THEN Patched(@, ThePatch(k)) ELSE @]
  /\ UNCHANGED <<config, ignoredNamespaces, started, queue, req, live, before,
                 idx, base, naming, cancelled>>

\* the DaemonSet entry point returns the error of reconcilePodTemplate
\* without recording the event
RewriteFailedSilentlyForDaemonSets(k, entry) ==
  /\ IF k = "DaemonSet" THEN Log(k, entry) ELSE Log2(k, entry, FailedCopyingImages(k))
  /\ Returns(k, "err", "rewrite-error")
  /\ copying' = [copying EXCEPT ![k] = NoCopy]
  /\ UNCHANGED <<config, ignoredNamespaces, started, store, queue, req, live, before,
                 idx, base, naming, cancelled>>

\* reconcilePodTemplate returned an error (lines 108-111): record the event,
\* return the error; with the last call of the rewrite as entry
RewriteFailed(k, entry) ==
  /\ Log2(k, entry, FailedCopyingImages(k))
  /\ Returns(k, "err", "rewrite-error")
  /\ copying' = [copying EXCEPT ![k] = NoCopy]
  /\ UNCHANGED <<config, ignoredNamespaces, started, store, queue, req, live, before,
                 idx, base, naming, cancelled>>

\* the container of the current iteration and what lines 160-170 compute of it
Container(k) == live[k].containers[idx[k]]
SrcImg(k) == ParseReference(Container(k).image)
InLoop(k) == pc[k] = "Rewrite" /\ idx[k] <= Len(live[k].containers)

\* the reference is compared with the registry by serialized name
AlreadyMirroredByName(srcImg, backup) == Name(srcImg) = RegistryStr(backup)

\* line 165: srcImg.Context().Registry == c.BackupRegistry
AlreadyMirrored(srcImg, backup) == Context(srcImg).Registry = backup

\* an image that does not parse is logged and the loop goes on
ParseFailsSkips(k) ==
  /\ InLoop(k)
  /\ ~SrcImg(k).ok
  /\ idx' = [idx EXCEPT ![k] = @ + 1]
  /\ Log(k, [op |-> "Parse", i |-> idx[k], res |-> "error"])
  /\ UNCHANGED <<config, ignoredNamespaces, started, store, queue, pc, req, live,
                 before, copying, ret, outcome, base, naming, cancelled>>

\* lines 160-163: the image does not parse
ParseFails(k) ==
  /\ InLoop(k)
  /\ ~SrcImg(k).ok
  /\ RewriteFailed(k, [op |-> "Parse", i |-> idx[k], res |-> "error"])

\* lines 165-168: the image is in the backup registry already, continue
SkipMirrored(k) ==
  /\ InLoop(k)
  /\ \E srcImg \in {SrcImg(k)} :
       srcImg.ok /\ AlreadyMirrored(srcImg, BackupRegistry)
  /\ idx' = [idx EXCEPT ![k] = @ + 1]
  /\ Log(k, [op |-> "Parse", i |-> idx[k], res |-> "mirrored"])
  /\ UNCHANGED <<config, ignoredNamespaces, started, store, queue, pc, req, live,
                 before, copying, ret, outcome, base, naming, cancelled>>

\* lines 170-173: the destination reference cannot be built
NamingFails(k) ==
  /\ InLoop(k)
  /\ \E srcImg \in {SrcImg(k)} :
       /\ srcImg.ok
       /\ ~AlreadyMirrored(srcImg, BackupRegistry)
       /\ ~toDestinationImage(srcImg, BackupRegistry).ok
  /\ RewriteFailed(k, [op |-> "Parse", i |-> idx[k], res |-> "unnameable"])

\* the destination is named with a tag that depends on what else the process
\* is doing: it is marked while another transfer is in flight
CopyStartsAtMarkedName(k) ==
  /\ InLoop(k)
  /\ \E srcImg \in {SrcImg(k)} :
       /\ srcImg.ok
       /\ ~AlreadyMirrored(srcImg, BackupRegistry)
       /\ \E dstImg \in {toDestinationImage(srcImg, BackupRegistry)} :
            /\ dstImg.ok
            /\ copying' = [copying EXCEPT ![k] =
                 [active |-> TRUE, i |-> idx[k], src |-> Name(srcImg),
                  dst |-> Name(dstImg) \o (IF \E j \in Kinds : copying[j].active
                                           THEN <<"_", "1">> ELSE <<>>)]]
  /\ pc' = [pc EXCEPT ![k] = "Copy"]
  /\ Log(k, [op |-> "Parse", i |-> idx[k], res |-> "copy"])
  /\ UNCHANGED <<config, ignoredNamespaces, started, store, queue, req, live, before,
                 idx, ret, outcome, base, naming, cancelled>>

\* line 178: crane.Copy(srcImg.Name(), dstImg.Name()) is called and blocks
CopyStarts(k) ==
  /\ InLoop(k)
  /\ \E srcImg \in {SrcImg(k)} :
       /\ srcImg.ok
       /\ ~AlreadyMirrored(srcImg, BackupRegistry)
       /\ \E dstImg \in {toDestinationImage(srcImg, BackupRegistry)} :
            /\ dstImg.ok
            /\ copying' = [copying EXCEPT ![k] =
                 [active |-> TRUE, i |-> idx[k], src |-> Name(srcImg), dst |-> Name(dstImg)]]
  /\ pc' = [pc EXCEPT ![k] = "Copy"]
  /\ Log(k, [op |-> "Parse", i |-> idx[k], res |-> "copy"])
  /\ UNCHANGED <<config, ignoredNamespaces, started, store, queue, req, live, before,
                 idx, ret, outcome, base, naming, cancelled>>

CopyEntry(k, res) ==
  [op |-> "Copy", i |-> copying[k].i, src |-> copying[k].src, dst |-> copying[k].dst,
   res |-> res]

\* container.Image = dstImg.Name(): the copy of the range loop is assigned,
\* the template keeps the source image
CopySucceedsOnLoopCopy(k) ==
  /\ pc[k] = "Copy"
  /\ idx' = [idx EXCEPT ![k] = @ + 1]
  /\ copying' = [copying EXCEPT ![k] = NoCopy]
  /\ pc' = [pc EXCEPT ![k] = "Rewrite"]
  /\ Log(k, CopyEntry(k, "ok"))
  /\ UNCHANGED <<config, ignoredNamespaces, started, store, queue, req, live, before, ret,
                 outcome, base, naming, cancelled>>

\* before aliases the fetched object instead of being a deep copy of it: the
\* assignment to the container shows in the snapshot as well
CopySucceedsAliased(k) ==
  /\ pc[k] = "Copy"
  /\ live' = [live EXCEPT ![k].containers[copying[k].i].image = copying[k].dst]
  /\ before' = [before EXCEPT ![k].containers[copying[k].i].image = copying[k].dst]
  /\ idx' = [idx EXCEPT ![k] = @ + 1]
  /\ copying' = [copying EXCEPT ![k] = NoCopy]
  /\ pc' = [pc EXCEPT ![k] = "Rewrite"]
  /\ Log(k, CopyEntry(k, "ok"))
  /\ UNCHANGED <<config, ignoredNamespaces, started, store, queue, req, ret,
                 outcome, base, naming, cancelled>>

\* lines 182-183: the copy succeeded, the container references the copy
CopySucceeds(k) ==
  /\ pc[k] = "Copy"
  /\ live' = [live EXCEPT ![k].containers[copying[k].i].image = copying[k].dst]
  /\ idx' = [idx EXCEPT ![k] = @ + 1]
  /\ copying' = [copying EXCEPT ![k] = NoCopy]
  /\ pc' = [pc EXCEPT ![k] = "Rewrite"]
  /\ Log(k, CopyEntry(k, "ok"))
  /\ UNCHANGED <<config, ignoredNamespaces, started, store, queue, req, before, ret,
                 outcome, base, naming, cancelled>>

\* the error of crane.Copy is logged and the loop goes on: the container
\* references the destination all the same
CopyFailsIgnored(k) ==
  /\ pc[k] = "Copy"
  /\ live' = [live EXCEPT ![k].containers[copying[k].i].image = copying[k].dst]
  /\ idx' = [idx EXCEPT ![k] = @ + 1]
  /\ copying' = [copying EXCEPT ![k] = NoCopy]
  /\ pc' = [pc EXCEPT ![k] = "Rewrite"]
  /\ Log(k, CopyEntry(k, "error"))
  /\ UNCHANGED <<config, ignoredNamespaces, started, store, queue, req, before, ret,
                 outcome, base, naming, cancelled>>

\* lines 178-180: the copy failed
CopyFails(k) ==
  /\ pc[k] = "Copy"
  /\ RewriteFailed(k, CopyEntry(k, "error"))

\* apiequality.Semantic.DeepEqual(before, deployment)
DeepEqual(a, b) == a = b

\* the loop is left one container early
RewriteDoneEarly(k) == pc[k] = "Rewrite" /\ idx[k] >= Len(live[k].containers)

\* the loop of reconcilePodTemplate is over (line 184)
RewriteDone(k) == pc[k] = "Rewrite" /\ idx[k] > Len(live[k].containers)

\* lines 114 and 121: nothing changed, return nil
Unchanged(k) ==
  /\ RewriteDone(k)
  /\ DeepEqual(before[k], live[k])
  /\ Log(k, [op |-> "Diff", changed |-> FALSE])
  /\ Returns(k, "nil", "no-op")
  /\ UNCHANGED <<config, ignoredNamespaces, started, store, queue, req, live, before,
                 idx, copying, base, naming, cancelled>>

\* lines 114-118: something changed, c.Patch is called and blocks
PatchStarts(k) ==
  /\ RewriteDone(k)
  /\ ~DeepEqual(before[k], live[k])
  /\ pc' = [pc EXCEPT ![k] = "Patch"]
  /\ Log(k, [op |-> "Diff", changed |-> TRUE])
  /\ UNCHANGED <<config, ignoredNamespaces, started, store, queue, req, live, before,
                 idx, copying, ret, outcome, base, naming, cancelled>>

\* c.Patch(ctx, ...) reaches the API server unless ctx was cancelled before
\* the call began
InTime(k) == cancelled[k].at \in {"no", "Patch"}

\* the patch is addressed by namespace and name only: it is applied to the
\* workload of the other kind as well
PatchSucceedsByName(k) ==
  /\ pc[k] = "Patch"
  /\ InTime(k)
  /\ store[req[k]].exists
  /\ Unlocked(store[req[k]], ThePatch(k))
  /\ store[req[k]].resourceVersion <= MaxVersion
  /\ store' = [id \in Identities |->
       IF id.namespace = req[k].namespace /\ id.name = req[k].name /\ store[id].exists
       THEN Patched(store[id], ThePatch(k)) ELSE store[id]]
  /\ queue' = Watch(queue, req[k])
  /\ Log(k, [op |-> "Patch", res |-> "ok"])
  /\ Returns(k, "nil", "committed")
  /\ UNCHANGED <<config, ignoredNamespaces, started, req, live, before, idx, copying,
                 base, naming, cancelled>>

\* line 118: the patch is applied; the change of the stored template is an
\* event for the controller itself.  Other actors write up to MaxVersion,
\* the controller may write once more.
PatchSucceeds(k) ==
  /\ pc[k] = "Patch"
  /\ InTime(k)
  /\ store[req[k]].exists
  /\ Unlocked(store[req[k]], ThePatch(k))
  /\ store[req[k]].resourceVersion <= MaxVersion
  /\ store' = [store EXCEPT ![req[k]] = Patched(@, ThePatch(k))]
  /\ queue' = Watch(queue, req[k])
  /\ Log(k, [op |-> "Patch", res |-> "ok"])
  /\ Returns(k, "nil", "committed")
  /\ UNCHANGED <<config, ignoredNamespaces, started, req, live, before, idx, copying,
                 base, naming, cancelled>>

\* a conflict is reported with a Warning event as well
PatchConflictsWithEvent(k) ==
  /\ pc[k] = "Patch"
  /\ InTime(k)
  /\ store[req[k]].exists
  /\ ~Unlocked(store[req[k]], ThePatch(k))
  /\ Log2(k, [op |-> "Patch", res |-> "conflict"], FailedCopyingImages(k))
  /\ Returns(k, "err", "conflict")
  /\ UNCHANGED <<config, ignoredNamespaces, started, store, queue, req, live, before,
                 idx, copying, base, naming, cancelled>>

\* line 118: the stored object has another resourceVersion than the snapshot
PatchConflicts(k) ==
  /\ pc[k] = "Patch"
  /\ InTime(k)
  /\ store[req[k]].exists
  /\ ~Unlocked(store[req[k]], ThePatch(k))
  /\ Log(k, [op |-> "Patch", res |-> "conflict"])
  /\ Returns(k, "err", "conflict")
  /\ UNCHANGED <<config, ignoredNamespaces, started, store, queue, req, live, before,
                 idx, copying, base, naming, cancelled>>

\* line 118: the stored object is gone
PatchNotFound(k) ==
  /\ pc[k] = "Patch"
  /\ InTime(k)
  /\ ~store[req[k]].exists
  /\ Log(k, [op |-> "Patch", res |-> "notfound"])
  /\ Returns(k, "err", "patch-error")
  /\ UNCHANGED <<config, ignoredNamespaces, started, store, queue, req, live, before,
                 idx, copying, base, naming, cancelled>>

\* line 118 with ctx cancelled: c.Patch returns the error of the context.  A
\* call that began after the cancellation is not sent; of a call that was in
\* progress the API server may have applied the patch all the same.
PatchCancelled(k) ==
  /\ pc[k] = "Patch"
  /\ cancelled[k].at # "no"
  /\ \/ UNCHANGED <<store, queue>>
     \/ /\ cancelled[k].at = "Patch"
        /\ store[req[k]].exists
        /\ Unlocked(store[req[k]], ThePatch(k))
        /\ store[req[k]].resourceVersion <= MaxVersion
        /\ store' = [store EXCEPT ![req[k]] = Patched(@, ThePatch(k))]
        /\ queue' = Watch(queue, req[k])
  /\ Log(k, [op |-> "Patch", res |-> "cancelled"])
  /\ Returns(k, "err", "cancelled")
  /\ UNCHANGED <<config, ignoredNamespaces, started, req, live, before, idx, copying,
                 base, naming, cancelled>>

\* on shutdown an attempt in flight saves the template as far as it got
ShutdownFlushes ==
  /\ started = "running"
  /\ \A k \in Kinds : pc[k] \in {"idle", "Get", "Copy", "Patch"}
  /\ started' = "stopped"
  /\ cancelled' = [k \in Kinds |->
       IF pc[k] \in {"Get", "Copy", "Patch"}
       THEN [at |-> pc[k], n |-> Len(ops[k])] ELSE NoCancel]
  /\ store' = [id \in Identities |->
       IF pc[id.kind] = "Copy" /\ req[id.kind] = id /\ store[id].exists
       THEN Object(store[id].resourceVersion + 1, live[id.kind].containers)
       ELSE store[id]]
  /\ UNCHANGED <<config, ignoredNamespaces, queue, pc, req, live, before, idx,
                 copying, ret, ops, outcome, base, naming>>

\* the manager's context is cancelled (shutdown): every attempt in flight
\* carries on with a cancelled ctx, and no further request is started.  The
\* cancellation arrives while an attempt is in a blocking call or while the
\* worker is idle.
Shutdown ==
  /\ started = "running"
  /\ \A k \in Kinds : pc[k] \in {"idle", "Get", "Copy", "Patch"}
  /\ started' = "stopped"
  /\ cancelled' = [k \in Kinds |->
       IF pc[k] \in {"Get", "Copy", "Patch"}
       THEN [at |-> pc[k], n |-> Len(ops[k])] ELSE NoCancel]
  /\ UNCHANGED <<config, ignoredNamespaces, store, queue, pc, req, live, before, idx,
                 copying, ret, ops, outcome, base, naming>>

\* the dispatcher takes the result: a request that failed is queued again
Finish(k) ==
  /\ pc[k] = "done"
  /\ queue' = IF ret[k] = "err" THEN [queue EXCEPT ![k] = @ \cup {req[k]}] ELSE queue
  /\ pc' = [pc EXCEPT ![k] = "idle"]
  /\ req' = [req EXCEPT ![k] = NoRequest]
  /\ live' = [live EXCEPT ![k] = NoObject]
  /\ before' = [before EXCEPT ![k] = NoObject]
  /\ idx' = [idx EXCEPT ![k] = 0]
  /\ ret' = [ret EXCEPT ![k] = "none"]
  /\ ops' = [ops EXCEPT ![k] = <<>>]
  /\ outcome' = [outcome EXCEPT ![k] = "none"]
  /\ base' = [base EXCEPT ![k] = NoObject]
  /\ cancelled' = [cancelled EXCEPT ![k] = NoCancel]
  /\ UNCHANGED <<config, ignoredNamespaces, started, store, copying, naming>>

\* reconcilePodTemplate: one iteration of the loop, or the return of the copy
reconcilePodTemplate(k) ==
  \/ ParseFails(k)
  \/ SkipMirrored(k)
  \/ NamingFails(k)
  \/ CopyStarts(k)
  \/ CopySucceeds(k)
  \/ CopyFails(k)

\* one step of Reconcile for the controller of kind k
Reconcile(k) ==
  \/ GetFound(k)
  \/ GetNotFound(k)
  \/ GetError(k)
  \/ reconcilePodTemplate(k)
  \/ Unchanged(k)
  \/ PatchStarts(k)
  \/ PatchSucceeds(k)
  \/ PatchConflicts(k)
  \/ PatchNotFound(k)
  \/ PatchCancelled(k)

ReconcileDeployment == Reconcile("Deployment")
ReconcileDaemonSet == Reconcile("DaemonSet")

Dispatcher == \E k \in Kinds : StartReconcile(k) \/ Finish(k)

OtherActors == \E id \in Identities : UserSetImage(id) \/ UserAddContainer(id) \/ UserDelete(id)

Next ==
  \/ SetupWithManager
  \/ ManagerStart
  \/ Shutdown
  \/ Dispatcher
  \/ ReconcileDeployment
  \/ ReconcileDaemonSet
  \/ OtherActors

Spec == Init /\ [][Next]_vars

\* every blocking call of an attempt returns: a worker that can take a step
\* of Reconcile takes one
LiveSpec == Spec /\ \A k \in Kinds : WF_vars(Reconcile(k))

\* both controllers at work, each on a workload of its kind
SpecKinds == InitKinds /\ [][Next]_vars

\* the dispatcher breaks its promise of one attempt per workload: the request
\* that worker j has in flight is handed to the idle worker k as well (the
\* two entry points being the same code, worker k stands for a second worker
\* of the controller of j)
DuplicateDispatch(k) ==
  /\ started = "running"
  /\ pc[k] = "idle"
  /\ \E j \in Kinds \ {k} :
       /\ pc[j] \in {"Get", "Rewrite", "Copy", "Patch"}
       /\ store[req[j]].exists => store[req[j]].resourceVersion <= MaxVersion
       /\ req' = [req EXCEPT ![k] = req[j]]
       /\ base' = [base EXCEPT ![k] = store[req[j]]]
  /\ pc' = [pc EXCEPT ![k] = "Get"]
  /\ UNCHANGED <<config, ignoredNamespaces, started, store, queue, live, before, idx,
                 copying, ret, ops, outcome, naming, cancelled>>

\* one Deployment with a pod template of a single container exists when the
\* controller is constructed
InitTwo ==
  /\ BackupRegistry \in {r \in BackupRegistries : r.registry = ManifestRegistry}
  /\ PodNamespace = ""
  /\ ignoredNamespaces = InitialIgnoredNamespaces
  /\ started = "new"
  /\ \E img \in InitialImages(BackupRegistry) :
       store = [j \in Identities |->
                  IF j.namespace = "default" /\ j.kind = "Deployment"
                  THEN Object(1, Template(<<img>>)) ELSE NoObject]
  /\ queue = [k \in Kinds |-> {}]
  /\ IdleWorker
  /\ naming = NoNaming

NextTwo == Next \/ \E k \in Kinds : DuplicateDispatch(k)

\* two attempts on one workload at a time
SpecTwo == InitTwo /\ [][NextTwo]_vars

\* besides, the dispatcher takes every result and starts every queued request,
\* and neither the fetch nor the transfer of any one container fails for ever
FairSpec ==
  /\ LiveSpec
  /\ \A k \in Kinds :
       /\ WF_vars(StartReconcile(k) \/ Finish(k))
       /\ SF_vars(GetFound(k))
       /\ \A i \in 1..MaxContainers : SF_vars(CopySucceeds(k) /\ copying[k].i = i)

(***************************************************************************)
(* The naming scheme on its own: one image string and one backup registry  *)
(* are drawn, the string is parsed, the destination is computed from the   *)
(* parsed reference, and the serialized destination is parsed again.       *)
(***************************************************************************)
\* the digest of the examples, 64 hexadecimal characters
Hex8 == <<"3","3","c","e","f","0","f","f">>
ExampleDigest == <<"s","h","a","2","5","6",":">> \o Hex8 \o Hex8 \o Hex8 \o Hex8 \o Hex8 \o Hex8 \o Hex8 \o Hex8

\* the sources of the scheme table (README lines 70-80, comment lines 193-197)
RowNginx == <<"n","g","i","n","x">>
RowNginxTag == <<"n","g","i","n","x",":","1",".","2","3">>
RowNginxDigest == <<"n","g","i","n","x">> \o <<"@">> \o ExampleDigest
RowGrafana == <<"g","r","a","f","a","n","a","/","g","r","a","f","a","n","a",":","m","a","i","n">>
RowSpeedtest == <<"g","h","c","r",".","i","o","/","t","i","m","e","b","e","r","t","t","/","s","p","e","e","d","t","e","s","t","-","e","x","p","o","r","t","e","r",":","v","0",".","1",".","0">>

NamingImages ==
  {RowNginx, RowNginxTag, RowNginxDigest, RowGrafana, RowSpeedtest,
   <<"l","o","c","a","l","h","o","s","t",":","5","0","0","0","/","f","o","o">>, <<"d","o","c","k","e","r",".","i","o","/","n","g","i","n","x">>, <<"q","u","a","y",".","i","o","/","a","/","b">> \o <<"@">> \o ExampleDigest,
   RowNginxTag \o <<"@">> \o ExampleDigest, <<"N","g","i","n","x">>, <<"1","0",".","9","6",".","0",".","1","1",":","5","0","0","1","/","a","p","p",":","v","1">>, <<"r","e","g","i","s","t","r","y",".","k","8","s",".","i","o","/","p","a","u","s","e",":","3",".","9">>}

\* a backup registry addressed by a fully qualified host name without a port
DomainRegistry == <<"r","e","g","i","s","t","r","y",".","e","x","a","m","p","l","e",".","c","o","m">>
NamingBackups ==
  {[insecure |-> r.insecure, registry |-> r.registry] :
     r \in {NewRegistry(ManifestRegistry), NewRegistry(ServiceRegistry),
            NewRegistry(DomainRegistry)}}

InitNaming ==
  /\ naming \in [phase : {"input"}, image : NamingImages, backup : NamingBackups]
  /\ BackupRegistry = naming.backup
  /\ PodNamespace = ""
  /\ ignoredNamespaces = InitialIgnoredNamespaces
  /\ started = "new"
  /\ store = [j \in Identities |-> NoObject]
  /\ queue = [k \in Kinds |-> {}]
  /\ IdleWorker

\* line 160: name.ParseReference(container.Image)
NamingParse ==
  /\ naming.phase = "input"
  /\ naming' = IF ParseReference(naming.image).ok
               THEN [phase |-> "parsed", image |-> naming.image, backup |-> naming.backup,
                     src |-> ParseReference(naming.image)]
               ELSE [phase |-> "rejected", image |-> naming.image, backup |-> naming.backup]
  /\ UNCHANGED <<config, ignoredNamespaces, started, store, queue, worker>>

\* line 170: toDestinationImage(srcImg, c.BackupRegistry)
NamingDestination ==
  /\ naming.phase = "parsed"
  /\ naming' = [phase |-> "named", image |-> naming.image, backup |-> naming.backup,
                src |-> naming.src, out |-> toDestinationImage(naming.src, naming.backup)]
  /\ UNCHANGED <<config, ignoredNamespaces, started, store, queue, worker>>

\* lines 183 and 160: the image written is dstImg.Name(), which the next
\* reconcile parses
NamingReparse ==
  /\ naming.phase = "named"
  /\ naming.out.ok
  /\ naming' = [phase |-> "reparsed", image |-> naming.image, backup |-> naming.backup,
                src |-> naming.src, out |-> naming.out,
                back |-> ParseReference(Name(naming.out))]
  /\ UNCHANGED <<config, ignoredNamespaces, started, store, queue, worker>>

NextNaming == NamingParse \/ NamingDestination \/ NamingReparse

SpecNaming == InitNaming /\ [][NextNaming]_vars

(***************************************************************************)
(* The naming scheme on two images of two containers, or of two workloads,  *)
(* that are mirrored to one backup registry.                               *)
(***************************************************************************)
\* a registry on a port and a registry whose name ends in that number
PortRegistryImage == <<"l","o","c","a","l","h","o","s","t",":","5","0","0","0","/","f","o","o">>
DotRegistryImage == <<"l","o","c","a","l","h","o","s","t",".","5","0","0","0","/","f","o","o">>
\* an image whose tag reads like the digest of RowNginxDigest
DigestLikeTagImage ==
  <<"n","g","i","n","x",":","s","h","a","2","5","6","_">>
    \o Hex8 \o Hex8 \o Hex8 \o Hex8 \o Hex8 \o Hex8 \o Hex8 \o Hex8

PairImages ==
  {RowNginx, RowNginxTag, RowNginxDigest, DigestLikeTagImage, RowGrafana, RowSpeedtest,
   PortRegistryImage, DotRegistryImage, <<"N","g","i","n","x">>}

InitPairs ==
  /\ naming \in [phase : {"pair"}, imageA : PairImages, imageB : PairImages,
                  backup : NamingBackups]
  /\ BackupRegistry = naming.backup
  /\ PodNamespace = ""
  /\ ignoredNamespaces = InitialIgnoredNamespaces
  /\ started = "new"
  /\ store = [j \in Identities |-> NoObject]
  /\ queue = [k \in Kinds |-> {}]
  /\ IdleWorker

\* line 160: name.ParseReference(container.Image), for each of the two
NamingPairParse ==
  /\ naming.phase = "pair"
  /\ \E srcA \in {ParseReference(naming.imageA)}, srcB \in {ParseReference(naming.imageB)} :
       naming' = IF srcA.ok /\ srcB.ok
                 THEN [phase |-> "pair-parsed", imageA |-> naming.imageA,
                       imageB |-> naming.imageB, backup |-> naming.backup,
                       srcA |-> srcA, srcB |-> srcB]
                 ELSE [phase |-> "pair-rejected", imageA |-> naming.imageA,
                       imageB |-> naming.imageB, backup |-> naming.backup]
  /\ UNCHANGED <<config, ignoredNamespaces, started, store, queue, worker>>

\* line 170: toDestinationImage(srcImg, c.BackupRegistry), for each of the two
NamingPairDestination ==
  /\ naming.phase = "pair-parsed"
  /\ naming' = [phase |-> "pair-named", imageA |-> naming.imageA,
                imageB |-> naming.imageB, backup |-> naming.backup,
                srcA |-> naming.srcA, srcB |-> naming.srcB,
                outA |-> toDestinationImage(naming.srcA, naming.backup),
                outB |-> toDestinationImage(naming.srcB, naming.backup)]
  /\ UNCHANGED <<config, ignoredNamespaces, started, store, queue, worker>>

NextPairs == NamingPairParse \/ NamingPairDestination

SpecPairs == InitPairs /\ [][NextPairs]_vars

(***************************************************************************)
(* Properties.                                                             *)
(***************************************************************************)
\* the positions of the calls of one kind in the history of an attempt
OpsOf(k, o) == {n \in 1..Len(ops[k]) : ops[k][n].op = o}
\* the calls of one kind in the history of an attempt, in order
Calls(k, o) == SelectSeq(ops[k], LAMBDA e : e.op = o)

\* the registry authority an image string parses to equals the backup's
InBackup(image) ==
  /\ ParseReference(image).ok
  /\ ParseReference(image).Registry.registry = BackupRegistry.registry

\* C1: an attempt whose pod template rewrite failed (parse, naming or
\* transfer failure at any container) has issued no Patch, and the stored
\* workload is as the other actors left it: the attempt wrote nothing.
C1_AllOrNothing ==
  \A k \in Kinds :
    outcome[k] = "rewrite-error" =>
      /\ OpsOf(k, "Patch") = {}
      /\ store[req[k]] = base[k]

\* a rewrite that failed at a second or later container after an earlier
\* container was rewritten in memory
C1_Witness ==
  \E k \in Kinds :
    /\ outcome[k] = "rewrite-error"
    /\ idx[k] >= 2
    /\ live[k] # before[k]
    /\ store[req[k]] = before[k]

\* C2: a Patch that returns while the stored workload differs from the
\* snapshot taken at the fetch (another actor modified it) is a conflict:
\* the store is left as it is and the attempt returns an error.
C2_OptimisticConcurrency ==
  [][\A k \in Kinds :
       (/\ pc[k] = "Patch"
        /\ pc'[k] = "done"
        /\ store[req[k]].exists
        /\ store[req[k]] # before[k])
       => /\ store' = store
          /\ ret'[k] = "err"
          /\ cancelled[k].at = "no" => outcome'[k] = "conflict"]_vars

\* a conflict was reported and the modification of the other actor is stored
C2_Witness ==
  \E k \in Kinds :
    /\ outcome[k] = "conflict"
    /\ store[req[k]].exists
    /\ store[req[k]] # before[k]
    /\ store[req[k]] = base[k]

\* C3: in an attempt that fetched a workload whose every container image has
\* the backup registry as its registry, there is no transfer, no Patch and no
\* event, and the attempt returns nil.
C3_MirroredIsNoOp ==
  \A k \in Kinds :
    (/\ before[k].exists
     /\ \A i \in 1..Len(before[k].containers) : InBackup(before[k].containers[i].image))
    => /\ OpsOf(k, "Copy") = {}
       /\ OpsOf(k, "Patch") = {}
       /\ OpsOf(k, "Event") = {}
       /\ pc[k] \notin {"Copy", "Patch"}
       /\ pc[k] = "done" => (ret[k] = "nil" /\ outcome[k] = "no-op")

\* an attempt on a workload with two mirrored containers has returned
C3_Witness ==
  \E k \in Kinds :
    /\ pc[k] = "done"
    /\ before[k].exists
    /\ Len(before[k].containers) >= 2
    /\ \A i \in 1..Len(before[k].containers) : InBackup(before[k].containers[i].image)

\* the containers of the fetched workload that are not in the backup registry
Needs(k) ==
  {i \in 1..Len(before[k].containers) : ~InBackup(before[k].containers[i].image)}
\* the serialized destination of the image container i was fetched with
Destination(k, i) ==
  Name(toDestinationImage(ParseReference(before[k].containers[i].image), BackupRegistry))

\* C4: once the rewrite of an attempt has succeeded, the transfers made are
\* exactly one per container outside the backup registry, in order, from the
\* serialized source to the serialized destination; those containers carry
\* the destination, the others their fetched image; and if there is such a
\* container the Patch is issued.
C4_RewriteResult ==
  \A k \in Kinds :
    (pc[k] = "Patch" \/ outcome[k] \in {"no-op", "committed", "conflict", "patch-error"})
    => LET copies == Calls(k, "Copy")
           needs == Needs(k)
       IN
       /\ Len(copies) = Cardinality(needs)
       /\ \A n \in 1..Len(copies) :
            /\ copies[n].i \in needs
            /\ copies[n].res = "ok"
            /\ copies[n].src = Name(ParseReference(before[k].containers[copies[n].i].image))
            /\ copies[n].dst = Destination(k, copies[n].i)
            /\ \A m \in 1..(n - 1) : copies[m].i < copies[n].i
       /\ Len(live[k].containers) = Len(before[k].containers)
       /\ \A i \in 1..Len(before[k].containers) :
            /\ live[k].containers[i].name = before[k].containers[i].name
            /\ live[k].containers[i].image =
                 IF i \in needs THEN Destination(k, i) ELSE before[k].containers[i].image
       /\ needs # {} => (pc[k] = "Patch" \/ OpsOf(k, "Patch") # {})

\* a commit of a workload with a mirrored and a not yet mirrored container
C4_Witness ==
  \E k \in Kinds :
    /\ outcome[k] = "committed"
    /\ Needs(k) # {}
    /\ Needs(k) # 1..Len(before[k].containers)

\* C5: an attempt that ended in a failed rewrite has recorded exactly one
\* event, a Warning on the workload of the request; an attempt that ended as
\* not-found, no-op, committed or conflict has recorded none.
C5_WarningPolicy ==
  \A k \in Kinds :
    /\ outcome[k] = "rewrite-error" =>
         /\ Cardinality(OpsOf(k, "Event")) = 1
         /\ \A n \in OpsOf(k, "Event") :
              ops[k][n].object = req[k] /\ ops[k][n].type = "Warning"
    /\ outcome[k] \in {"not-found", "no-op", "committed", "conflict"} =>
         OpsOf(k, "Event") = {}

\* an attempt ended in a failed transfer and its event is in the history
C5_Witness ==
  \E k \in Kinds :
    /\ outcome[k] = "rewrite-error"
    /\ \E n \in OpsOf(k, "Copy") : ops[k][n].res = "error"
    /\ OpsOf(k, "Event") # {}

\* C6: an attempt whose fetch found no object has returned nil after the
\* fetch alone: no transfer, no Patch, no event, the store untouched.
C6_NotFound ==
  \A k \in Kinds :
    (\E n \in OpsOf(k, "Get") : ops[k][n].res = "notfound")
    => /\ pc[k] = "done"
       /\ ret[k] = "nil"
       /\ ops[k] = <<[op |-> "Get", res |-> "notfound"]>>
       /\ store[req[k]] = base[k]

\* the fetch of an attempt found no object
C6_Witness ==
  \E k \in Kinds : pc[k] = "done" /\ outcome[k] = "not-found" /\ ~store[req[k]].exists

\* the namespaces the filter is to reject under the current configuration
IgnoredByContract ==
  {"kube-system", "registry", "local-path-storage"}
    \cup (IF PodNamespace # "" THEN {PodNamespace} ELSE {})

\* C7: once the controller is set up, the predicate rejects exactly the
\* namespaces kube-system, registry, local-path-storage and (if non-empty)
\* PodNamespace; no request for a workload in such a namespace is queued or
\* reconciled, and the images of such a workload are never rewritten.
C7_NamespaceFilter ==
  started # "new" =>
    /\ \A id \in Identities : namespacePredicate(id) <=> id.namespace \notin IgnoredByContract
    /\ \A k \in Kinds :
         /\ \A id \in queue[k] : id.namespace \notin IgnoredByContract
         /\ pc[k] # "idle" => req[k].namespace \notin IgnoredByContract
    /\ \A id \in Identities :
         (id.namespace \in IgnoredByContract /\ store[id].exists)
         => \A i \in 1..Len(store[id].containers) :
              store[id].containers[i].image \in ImagePool(BackupRegistry)

\* a workload in the controller's own namespace was changed while the
\* controller runs, and nothing is queued or reconciled
C7_Witness ==
  \E id \in Identities :
    /\ started = "running"
    /\ PodNamespace # ""
    /\ id.namespace = PodNamespace
    /\ store[id].exists
    /\ store[id].resourceVersion > 1
    /\ queue[id.kind] = {}
    /\ pc[id.kind] = "idle"

\* the characters . and : replaced by _
Sanitized(s) == [i \in 1..Len(s) |-> IF s[i] = "." \/ s[i] = ":" THEN "_" ELSE s[i]]
\* the character : replaced by _
Untagged(s) == [i \in 1..Len(s) |-> IF s[i] = ":" THEN "_" ELSE s[i]]

\* the destinations of the scheme table for the backup registry at hand
RowHolds(image, suffix) ==
  naming.image = image => Name(naming.out) = RegistryStr(naming.backup) \o suffix

\* C8: for every parsed source (registry R, repository P) and backup B the
\* destination is the tag reference with registry B, repository
\* sanitize(R)/P and the source tag, or the digest with : replaced by _; the
\* rows of the scheme table come out as documented.
C8_DestinationNaming ==
  naming.phase \in {"named", "reparsed"} =>
    /\ naming.out.ok
    /\ ~naming.out.isDigest
    /\ naming.out.Registry.registry = naming.backup.registry
    /\ RepositoryStr(Context(naming.out)) =
         Sanitized(naming.src.Registry.registry) \o <<"/">> \o RepositoryStr(Context(naming.src))
    /\ naming.out.identifier =
         IF naming.src.isDigest THEN Untagged(naming.src.identifier) ELSE naming.src.identifier
    /\ RowHolds(RowNginx, <<"/","i","n","d","e","x","_","d","o","c","k","e","r","_","i","o","/","l","i","b","r","a","r","y","/","n","g","i","n","x",":","l","a","t","e","s","t">>)
    /\ RowHolds(RowNginxTag, <<"/","i","n","d","e","x","_","d","o","c","k","e","r","_","i","o","/","l","i","b","r","a","r","y","/","n","g","i","n","x",":","1",".","2","3">>)
    /\ RowHolds(RowNginxDigest, <<"/","i","n","d","e","x","_","d","o","c","k","e","r","_","i","o","/","l","i","b","r","a","r","y","/","n","g","i","n","x",":","s","h","a","2","5","6","_">> \o Hex8 \o Hex8 \o Hex8 \o Hex8 \o Hex8 \o Hex8 \o Hex8 \o Hex8)
    /\ RowHolds(RowGrafana, <<"/","i","n","d","e","x","_","d","o","c","k","e","r","_","i","o","/","g","r","a","f","a","n","a","/","g","r","a","f","a","n","a",":","m","a","i","n">>)
    /\ RowHolds(RowSpeedtest, <<"/","g","h","c","r","_","i","o","/","t","i","m","e","b","e","r","t","t","/","s","p","e","e","d","t","e","s","t","-","e","x","p","o","r","t","e","r",":","v","0",".","1",".","0">>)

\* C9: every image a committed rewrite has written parses back to a
\* reference in the backup registry.
C9_RewriteIsFixpoint ==
  \A k \in Kinds :
    outcome[k] = "committed" =>
      \A i \in 1..Len(live[k].containers) :
        live[k].containers[i].image # before[k].containers[i].image
        => InBackup(live[k].containers[i].image)

\* the step of the attempt a call belongs to: fetch, rewrite, diff, commit
Step(e) ==
  CASE e.op = "Get" -> 1
    [] e.op \in {"Parse", "Copy", "Event"} -> 2
    [] e.op = "Diff" -> 3
    [] e.op = "Patch" -> 4

\* C10: the calls of an attempt are in the order fetch, rewrite, diff,
\* commit; the containers are taken in template order; a transfer returns
\* before anything else is called, so at most one is in flight; and the Patch
\* is called only after every container was processed and every transfer
\* returned successfully.
C10_StepOrder ==
  \A k \in Kinds :
    LET o == ops[k]
        parses == Calls(k, "Parse")
        started_ == {n \in OpsOf(k, "Parse") : o[n].res = "copy"}
    IN  /\ \A n \in 1..Len(o) : (n = 1) <=> (o[n].op = "Get")
        /\ \A m, n \in 1..Len(o) : m < n => Step(o[m]) <= Step(o[n])
        /\ Cardinality(OpsOf(k, "Diff")) <= 1
        /\ Cardinality(OpsOf(k, "Patch")) <= 1
        /\ \A n \in 1..Len(parses) : parses[n].i = n
        /\ \A n \in OpsOf(k, "Copy") :
             o[n - 1].op = "Parse" /\ o[n - 1].res = "copy" /\ o[n - 1].i = o[n].i
        /\ Cardinality(started_) - Cardinality(OpsOf(k, "Copy")) = (IF pc[k] = "Copy" THEN 1 ELSE 0)
        /\ (pc[k] = "Patch" \/ OpsOf(k, "Patch") # {}) =>
             /\ OpsOf(k, "Diff") # {}
             /\ Len(parses) = Len(live[k].containers)
             /\ Cardinality(started_) = Cardinality(OpsOf(k, "Copy"))
             /\ \A n \in OpsOf(k, "Copy") : o[n].res = "ok"

\* a commit after two transfers
C10_Witness ==
  \E k \in Kinds :
    /\ outcome[k] = "committed"
    /\ Cardinality(OpsOf(k, "Copy")) >= 2

\* the positions in the history of an attempt at which the rewrite failed
Failures(k) ==
  {n \in 1..Len(ops[k]) :
     \/ ops[k][n].op = "Parse" /\ ops[k][n].res \in {"error", "unnameable"}
     \/ ops[k][n].op = "Copy" /\ ops[k][n].res = "error"}

\* C11: once the parse, the naming or the transfer of container f has failed,
\* the attempt has returned and nothing but the event follows in its history:
\* no later container is parsed or transferred.  The transfers of the attempt
\* are one successful transfer for each not yet mirrored container before f,
\* and the failed transfer of f if it was the transfer that failed.
C11_AbortOnFirstFailure ==
  \A k \in Kinds : \A n \in Failures(k) :
    LET o == ops[k]
        f == o[n].i
        copies == Calls(k, "Copy")
        needs == Needs(k)
    IN  /\ pc[k] = "done"
        /\ \A m \in (n + 1)..Len(o) : o[m].op = "Event"
        /\ \A m \in 1..Len(o) : o[m].op \in {"Parse", "Copy"} => o[m].i <= f
        /\ \A i \in 1..Len(before[k].containers) :
             (\E j \in 1..Len(copies) : copies[j].i = i)
             <=> ((i < f /\ i \in needs) \/ (i = f /\ o[n].op = "Copy"))
        /\ \A j \in 1..Len(copies) :
             /\ copies[j].res = (IF copies[j].i < f THEN "ok" ELSE "error")
             /\ \A h \in 1..(j - 1) : copies[h].i < copies[j].i

\* the rewrite failed at a container that is not the last of the template
C11_Witness ==
  \E k \in Kinds : \E n \in Failures(k) :
    /\ pc[k] = "done"
    /\ ops[k][n].i < Len(before[k].containers)

\* the stored workload is the fetched one with every container outside the
\* backup registry referencing its destination, one version later
CompleteRewrite(k) ==
  /\ before[k].exists
  /\ store[req[k]].exists
  /\ store[req[k]].resourceVersion = before[k].resourceVersion + 1
  /\ Len(store[req[k]].containers) = Len(before[k].containers)
  /\ \A i \in 1..Len(before[k].containers) :
       /\ store[req[k]].containers[i].name = before[k].containers[i].name
       /\ store[req[k]].containers[i].image =
            IF InBackup(before[k].containers[i].image)
            THEN before[k].containers[i].image ELSE Destination(k, i)

\* C12: wherever the cancellation of ctx finds an attempt (in the fetch, in
\* a transfer, in the Patch), the stored workload is either as the other
\* actors left it, untouched by the attempt, or the complete rewrite of the
\* fetched template; a template rewritten in part is never stored.
C12_NoPartialWrite ==
  \A k \in Kinds :
    pc[k] # "idle" => (store[req[k]] = base[k] \/ CompleteRewrite(k))

\* ctx was cancelled during the second transfer of an attempt, after the
\* first container was rewritten in memory, and the attempt has returned
C12_Witness ==
  \E k \in Kinds :
    /\ pc[k] = "done"
    /\ cancelled[k].at = "Copy"
    /\ \E n \in OpsOf(k, "Copy") : ops[k][n].res = "ok" /\ n < cancelled[k].n
    /\ live[k] # before[k]
    /\ store[req[k]] = base[k]

\* the terminal state of the contract a return statement stands for
TerminalState(o) ==
  CASE o = "no-op" -> "success-no-op"
    [] o = "committed" -> "success-committed"
    [] o = "not-found" -> "not-found-no-op"
    [] o \in {"read-error", "rewrite-error", "conflict", "patch-error", "cancelled"}
         -> "retryable-error"
    [] OTHER -> "none"

\* the calls of an attempt that reported an error other than not-found at the fetch
ErrorsIn(k) ==
  {n \in 1..Len(ops[k]) :
     \/ ops[k][n].op = "Get" /\ ops[k][n].res = "error"
     \/ ops[k][n].op = "Parse" /\ ops[k][n].res \in {"error", "unnameable"}
     \/ ops[k][n].op = "Copy" /\ ops[k][n].res = "error"
     \/ ops[k][n].op = "Patch" /\ ops[k][n].res # "ok"}

\* an attempt that has returned is in one terminal state; it returned an
\* error exactly if one of its calls reported one
Returned(k) ==
  pc[k] = "done" =>
    /\ TerminalState(outcome[k]) \in
         {"success-no-op", "success-committed", "retryable-error", "not-found-no-op"}
    /\ ret[k] \in {"nil", "err"}
    /\ (ret[k] = "err") <=> (TerminalState(outcome[k]) = "retryable-error")
    /\ (ret[k] = "err") <=> (ErrorsIn(k) # {})

\* C13: with every blocking call returning, an attempt that was started
\* returns; it returns in one of the terminal states success-no-op,
\* success-committed, retryable-error, not-found-no-op; it returns an error
\* exactly if one of its calls failed; and the dispatcher queues the request
\* of an attempt that returned an error again.
C13_Terminates ==
  /\ [](\A k \in Kinds : Returned(k))
  /\ [][\A k \in Kinds :
          (pc[k] = "done" /\ pc'[k] = "idle" /\ ret[k] = "err") => req[k] \in queue'[k]]_vars
  /\ \A k \in Kinds : (pc[k] \in {"Get", "Rewrite", "Copy", "Patch"}) ~> (pc[k] = "done")

\* an attempt has returned a conflict after a transfer
C13_Witness ==
  \E k \in Kinds :
    /\ pc[k] = "done"
    /\ outcome[k] = "conflict"
    /\ ret[k] = "err"
    /\ OpsOf(k, "Copy") # {}

\* every image of a stored workload parses and is in the backup registry or
\* has a destination
Rewritable(obj) ==
  \A i \in 1..Len(obj.containers) :
    \E srcImg \in {ParseReference(obj.containers[i].image)} :
      /\ srcImg.ok
      /\ AlreadyMirrored(srcImg, BackupRegistry)
         \/ toDestinationImage(srcImg, BackupRegistry).ok

\* every image of a stored workload references the backup registry
AllMirrored(obj) ==
  \A i \in 1..Len(obj.containers) : InBackup(obj.containers[i].image)

Unkind(e) == IF e.op = "Event" THEN [e EXCEPT !.object.kind = "Workload"] ELSE e

\* a history entry without what the object store or the registry answered
Call(e) == IF e.op \in {"Get", "Copy", "Patch"} THEN [e EXCEPT !.res = "?"] ELSE Unkind(e)

C16_ConfigReadOnly ==
  [][/\ BackupRegistry' = BackupRegistry
     /\ PodNamespace' = PodNamespace
     /\ ignoredNamespaces' # ignoredNamespaces =>
          /\ started = "new" /\ started' = "setup"
          /\ ignoredNamespaces' = ignoredNamespaces \cup {PodNamespace}
          /\ \A k \in Kinds : pc[k] = "idle" /\ ops[k] = <<>> /\ queue[k] = {}]_vars

\* SetupWithManager has put the controller's namespace on the ignored set,
\* and an attempt has run up to its Patch since
C16_Witness ==
  /\ PodNamespace # ""
  /\ ignoredNamespaces = InitialIgnoredNamespaces \cup {PodNamespace}
  /\ \E k \in Kinds : pc[k] = "Patch"

\* the containers whose transfer succeeded in the attempt of controller k
Rewritten(k) == {ops[k][n].i : n \in {m \in OpsOf(k, "Copy") : ops[k][m].res = "ok"}}

\* C17: in an attempt that fetched its object, the live template differs from
\* the snapshot at exactly the containers that were rewritten (the snapshot
\* keeps the fetched images); and once the rewrite has returned without
\* error, the diff reports a change, and a Patch is issued, if and only if at
\* least one container was rewritten; otherwise the attempt ends as a no-op
\* without a Patch.
C17_CommitIffChanged ==
  \A k \in Kinds :
    before[k].exists =>
      /\ Len(live[k].containers) = Len(before[k].containers)
      /\ \A i \in 1..Len(before[k].containers) :
           /\ live[k].containers[i].image # before[k].containers[i].image
                <=> i \in Rewritten(k)
           /\ live[k].containers[i].name = before[k].containers[i].name
      /\ \A n \in OpsOf(k, "Diff") :
           /\ ops[k][n].changed <=> Rewritten(k) # {}
           /\ ops[k][n].changed <=> (pc[k] = "Patch" \/ OpsOf(k, "Patch") # {})
           /\ ~ops[k][n].changed => pc[k] = "done" /\ outcome[k] = "no-op"
      /\ (pc[k] = "Patch" \/ OpsOf(k, "Patch") # {}) => OpsOf(k, "Diff") # {}

\* an attempt is at its Patch with one container rewritten and one left as
\* fetched
C17_Witness ==
  \E k \in Kinds :
    /\ pc[k] = "Patch"
    /\ Rewritten(k) # {}
    /\ \E i \in 1..Len(before[k].containers) :
         live[k].containers[i].image = before[k].containers[i].image

\* the transfers called by the attempts in flight, as source and destination
Transfers ==
  UNION {{<<ops[k][n].src, ops[k][n].dst>> : n \in OpsOf(k, "Copy")} : k \in Kinds}
  \cup {<<copying[k].src, copying[k].dst>> : k \in {j \in Kinds : copying[j].active}}

C19_CancelledAtBoundary ==
  \A k \in Kinds :
    cancelled[k].at # "no" =>
      \A m \in (cancelled[k].n + 1)..Len(ops[k]) :
        /\ ~(ops[k][m].op = "Parse" /\ ops[k][m].res = "copy")
        /\ ops[k][m].op = "Patch" => ops[k][m].res # "ok"

\* the attempt of controller k has a transfer of container i to image dst that
\* returned without error
Copied(k, i, dst) ==
  \E n \in OpsOf(k, "Copy") :
    ops[k][n].res = "ok" /\ ops[k][n].i = i /\ ops[k][n].dst = dst

\* C20: every container image in the Patch of an attempt (issued or about to
\* be), and every container image by which the stored workload differs from
\* what the other actors left, is the destination of a transfer of that
\* container that succeeded earlier in the same attempt.
C20_CopyBeforeReference ==
  \A k \in Kinds :
    /\ (pc[k] = "Patch" \/ OpsOf(k, "Patch") # {}) =>
         /\ ThePatch(k).containers # <<>>
         /\ \A j \in 1..Len(ThePatch(k).containers) :
              \E i \in 1..Len(before[k].containers) :
                /\ before[k].containers[i].name = ThePatch(k).containers[j].name
                /\ Copied(k, i, ThePatch(k).containers[j].image)
    /\ (pc[k] # "idle" /\ store[req[k]].exists /\ base[k].exists) =>
         /\ Len(store[req[k]].containers) = Len(base[k].containers)
         /\ \A i \in 1..Len(base[k].containers) :
              store[req[k]].containers[i].image # base[k].containers[i].image
                => Copied(k, i, store[req[k]].containers[i].image)

\* an attempt has committed: the stored workload references an image that
\* the others did not write
C20_Witness ==
  \E k \in Kinds :
    /\ outcome[k] = "committed"
    /\ store[req[k]].exists /\ base[k].exists
    /\ \E i \in 1..Len(base[k].containers) :
         store[req[k]].containers[i].image # base[k].containers[i].image

\* the fetched object of attempt k with the image of each rewritten container
\* replaced by the destination of its transfer, one version later
Committed(k) ==
  Object(before[k].resourceVersion + 1,
         [i \in 1..Len(before[k].containers) |->
            IF i \in Rewritten(k)
            THEN [before[k].containers[i] EXCEPT !.image = live[k].containers[i].image]
            ELSE before[k].containers[i]])

\* C21: a Patch step of an attempt that changes the stored workload leaves
\* it with the containers of the fetched version, in the same number, order
\* and names, with the images of the containers that were not rewritten
\* (already mirrored ones among them) as fetched, and nothing else changed
\* but the version the store assigns.
C21_CommitChangesImagesOnly ==
  [][\A k \in Kinds :
       (pc[k] = "Patch" /\ pc'[k] = "done" /\ store'[req[k]] # store[req[k]]) =>
         /\ store'[req[k]] = Committed(k)
         /\ Len(store'[req[k]].containers) = Len(before[k].containers)
         /\ \A i \in 1..Len(before[k].containers) :
              /\ store'[req[k]].containers[i].name = before[k].containers[i].name
              /\ i \notin Rewritten(k) =>
                   store'[req[k]].containers[i] = before[k].containers[i]
         /\ \A id \in Identities \ {req[k]} : store'[id] = store[id]]_vars

\* an attempt has committed a template of two containers of which one was
\* already mirrored and one was rewritten
C21_Witness ==
  \E k \in Kinds :
    /\ outcome[k] = "committed"
    /\ Len(before[k].containers) = 2
    /\ Cardinality(Rewritten(k)) = 1
    /\ \E i \in 1..2 : InBackup(before[k].containers[i].image)
    /\ store[req[k]] = Committed(k)

\* the results of the Patch calls in the history of attempt k
PatchResults(k) == {ops[k][n].res : n \in OpsOf(k, "Patch")}

\* C22: of two attempts in flight on one workload that fetched the same
\* version, at most one has a Patch that succeeded; the Patch of the other,
\* if it has returned, was rejected (as a conflict while the workload exists)
\* and wrote nothing: as long as no one else has written since, the stored
\* workload is the complete result of the attempt that committed.
C22_OneCommitPerVersion ==
  \A a, b \in Kinds :
    (/\ a # b
     /\ pc[a] # "idle" /\ pc[b] # "idle"
     /\ req[a] = req[b]
     /\ before[a].exists /\ before[b].exists
     /\ before[a].resourceVersion = before[b].resourceVersion
     /\ "ok" \in PatchResults(a))
    => /\ "ok" \notin PatchResults(b)
       /\ outcome[b] # "committed"
       /\ PatchResults(b) \subseteq {"conflict", "notfound", "cancelled"}
       /\ (store[req[a]].exists /\ PatchResults(b) # {} /\ cancelled[b].at = "no")
            => "conflict" \in PatchResults(b)
       /\ (store[req[a]].exists
           /\ store[req[a]].resourceVersion = before[a].resourceVersion + 1)
            => store[req[a]] = Committed(a)

\* two attempts fetched one workload at one version, rewrote it and called
\* Patch: one has committed, the other got a conflict
C22_Witness ==
  \E a, b \in Kinds :
    /\ a # b
    /\ req[a] = req[b]
    /\ before[a].exists /\ before[a] = before[b]
    /\ PatchResults(a) = {"ok"}
    /\ PatchResults(b) = {"conflict"}
    /\ Rewritten(b) # {}
    /\ store[req[a]] = Committed(a)

\* C23: an attempt whose fetch failed with an error other than not-found has
\* returned an error; the fetch is the only call in its history (no
\* transfer, no Patch, no event), no object was fetched, no transfer is in
\* flight, and the stored workload is as the other actors left it.
C23_ReadErrorReturnsAtOnce ==
  \A k \in Kinds :
    (ops[k] # <<>> /\ ops[k][1] = [op |-> "Get", res |-> "error"]) =>
      /\ ops[k] = <<[op |-> "Get", res |-> "error"]>>
      /\ pc[k] = "done" /\ ret[k] = "err" /\ outcome[k] = "read-error"
      /\ live[k] = NoObject /\ before[k] = NoObject
      /\ ~copying[k].active
      /\ store[req[k]] = base[k]

\* the fetch of a workload that exists and has an image to mirror failed
C23_Witness ==
  \E k \in Kinds :
    /\ outcome[k] = "read-error"
    /\ store[req[k]].exists
    /\ \E i \in 1..Len(store[req[k]].containers) :
         store[req[k]].containers[i].image = ImgNginx

\* what the worker of controller k holds of its attempt
Local(k) == <<pc[k], req[k], live[k], before[k], idx[k], copying[k], ret[k], ops[k],
              outcome[k]>>

\* C24: a step of the attempt of one controller, on workload W, leaves the
\* attempt of the other controller and every stored workload but W as they
\* are, and touches the queues for W only; what it fetches is the stored W,
\* its events are about W, what it writes is its own complete rewrite of the
\* W it fetched, and how its Patch ends depends on the stored W alone.  So
\* nothing of an attempt for W' shows in the attempt for W or in the stored W.
C24_NoInterference ==
  [][\A k \in Kinds :
       Local(k)' # Local(k) =>
         LET W == IF pc[k] = "idle" THEN req'[k] ELSE req[k]
         IN  /\ \A j \in Kinds \ {k} : Local(j)' = Local(j)
             /\ \A id \in Identities \ {W} : store'[id] = store[id]
             /\ \A j \in Kinds : queue'[j] \ {W} = queue[j] \ {W}
             /\ (pc[k] = "Get" /\ live'[k].exists) =>
                  live'[k] = store[W] /\ before'[k] = store[W]
             /\ \A n \in 1..Len(ops'[k]) :
                  ops'[k][n].op = "Event" => ops'[k][n].object = W
             /\ store'[W] # store[W] =>
                  /\ store[W].exists
                  /\ store[W].resourceVersion = before[k].resourceVersion
                  /\ store'[W] = Committed(k)
             /\ (pc[k] = "Patch" /\ pc'[k] = "done" /\ cancelled[k].at = "no") =>
                  outcome'[k] =
                    IF ~store[W].exists THEN "patch-error"
                    ELSE IF store[W].resourceVersion = before[k].resourceVersion
                         THEN "committed" ELSE "conflict"]_vars

\* the attempt on the Deployment has committed while the attempt on the
\* DaemonSet is in a transfer, and the DaemonSet is stored as others left it
C24_Witness ==
  /\ outcome["Deployment"] = "committed"
  /\ store[req["Deployment"]] = Committed("Deployment")
  /\ pc["DaemonSet"] = "Copy"
  /\ req["DaemonSet"] # req["Deployment"]
  /\ req["DaemonSet"].name = req["Deployment"].name
  /\ store[req["DaemonSet"]] = base["DaemonSet"]

\* C25: two source references that differ (in registry, in repository, in
\* tag or digest, or in being a tag or a digest) and that both have a
\* destination in the backup registry have different destinations.
C25_NamingInjective ==
  (/\ naming.phase = "pair-named"
   /\ naming.outA.ok /\ naming.outB.ok
   /\ naming.srcA # naming.srcB)
  => Name(naming.outA) # Name(naming.outB)

=============================================================================
